---- MODULE Spec2Model ----
\* A model of astor's Inspector: the mutation-capable AST walk of
\* inspectorImpl.Inspect (method-based engine) and of Inspect(i, node)
\* (free-function engine, walk.go), with the cursor, the mutex and the visitor.
EXTENDS Integers, Sequences, FiniteSets, TLC

\* ---------------------------------------------------------------- bounds

\* The number of Replace calls the visitor makes during one run.
MaxReplace == 2

\* ------------------------------------------------- grammar: dispatch table

\* A child field of a variant as the switch of Inspect treats it:
\*   req      n.F = Inspect(n.F).(T)                  unconditionally
\*   opt      if n.F != nil { n.F = Inspect(n.F).(T) }
\*   helper   n.F = inspectXList(i, n.F)              a freshly made list
\*   inplace  for l, c := range n.F { n.F[l] = Inspect(c).(T) }   (a slice)
\*   maprange the same loop over the map Package.Files
\*   unwalked a child collection the switch leaves alone (File.Comments)
Req(n, t) == [name |-> n, mode |-> "req", type |-> t]
Opt(n, t) == [name |-> n, mode |-> "opt", type |-> t]
Helper(n, t) == [name |-> n, mode |-> "helper", type |-> t]
InPlace(n, t) == [name |-> n, mode |-> "inplace", type |-> t]
MapRange(n, t) == [name |-> n, mode |-> "maprange", type |-> t]
Unwalked(n) == [name |-> n, mode |-> "unwalked", type |-> "none"]

\* The variants that have a case in the switch.
Kinds ==
    { "Comment", "CommentGroup", "Field", "FieldList",
      "BadExpr", "Ident", "BasicLit", "Ellipsis", "FuncLit", "CompositeLit",
      "ParenExpr", "SelectorExpr", "IndexExpr", "SliceExpr", "TypeAssertExpr",
      "CallExpr", "StarExpr", "UnaryExpr", "BinaryExpr", "KeyValueExpr",
      "ArrayType", "StructType", "FuncType", "InterfaceType", "MapType",
      "ChanType",
      "BadStmt", "DeclStmt", "EmptyStmt", "LabeledStmt", "ExprStmt",
      "SendStmt", "IncDecStmt", "AssignStmt", "GoStmt", "DeferStmt",
      "ReturnStmt", "BranchStmt", "BlockStmt", "IfStmt", "CaseClause",
      "SwitchStmt", "TypeSwitchStmt", "CommClause", "SelectStmt", "ForStmt",
      "RangeStmt",
      "ImportSpec", "ValueSpec", "TypeSpec", "BadDecl", "GenDecl", "FuncDecl",
      "File", "Package" }

\* The child fields of each case of the switch, in the order the case walks them.
Fields(k) ==
    CASE k = "CommentGroup" -> << InPlace("List", "Comment") >>
      [] k = "Field" ->
            << Opt("Doc", "CommentGroup"), Helper("Names", "Ident"),
               Req("Type", "Expr"), Opt("Tag", "BasicLit"),
               Opt("Comment", "CommentGroup") >>
      [] k = "FieldList" -> << InPlace("List", "Field") >>
      [] k = "Ellipsis" -> << Opt("Elt", "Expr") >>
      [] k = "FuncLit" -> << Req("Type", "FuncType"), Req("Body", "BlockStmt") >>
      [] k = "CompositeLit" -> << Opt("Type", "Expr"), Helper("Elts", "Expr") >>
      [] k = "ParenExpr" -> << Req("X", "Expr") >>
      [] k = "SelectorExpr" -> << Req("X", "Expr"), Req("Sel", "Ident") >>
      [] k = "IndexExpr" -> << Req("X", "Expr"), Req("Index", "Expr") >>
      [] k = "SliceExpr" ->
            << Req("X", "Expr"), Opt("Low", "Expr"), Opt("High", "Expr"),
               Opt("Max", "Expr") >>
      [] k = "TypeAssertExpr" -> << Req("X", "Expr"), Opt("Type", "Expr") >>
      [] k = "CallExpr" -> << Req("Fun", "Expr"), Helper("Args", "Expr") >>
      [] k = "StarExpr" -> << Req("X", "Expr") >>
      [] k = "UnaryExpr" -> << Req("X", "Expr") >>
      [] k = "BinaryExpr" -> << Req("X", "Expr"), Req("Y", "Expr") >>
      [] k = "KeyValueExpr" -> << Req("Key", "Expr"), Req("Value", "Expr") >>
      [] k = "ArrayType" -> << Opt("Len", "Expr"), Req("Elt", "Expr") >>
      [] k = "StructType" -> << Req("Fields", "FieldList") >>
      [] k = "FuncType" ->
            << Opt("Params", "FieldList"), Opt("Results", "FieldList") >>
      [] k = "InterfaceType" -> << Req("Methods", "FieldList") >>
      [] k = "MapType" -> << Req("Key", "Expr"), Req("Value", "Expr") >>
      [] k = "ChanType" -> << Req("Value", "Expr") >>
      [] k = "DeclStmt" -> << Req("Decl", "Decl") >>
      [] k = "LabeledStmt" -> << Req("Label", "Ident"), Req("Stmt", "Stmt") >>
      [] k = "ExprStmt" -> << Req("X", "Expr") >>
      [] k = "SendStmt" -> << Req("Chan", "Expr"), Req("Value", "Expr") >>
      [] k = "IncDecStmt" -> << Req("X", "Expr") >>
      [] k = "AssignStmt" -> << Helper("Lhs", "Expr"), Helper("Rhs", "Expr") >>
      [] k = "GoStmt" -> << Req("Call", "CallExpr") >>
      [] k = "DeferStmt" -> << Req("Call", "CallExpr") >>
      [] k = "ReturnStmt" -> << Helper("Results", "Expr") >>
      [] k = "BranchStmt" -> << Opt("Label", "Ident") >>
      [] k = "BlockStmt" -> << Helper("List", "Stmt") >>
      [] k = "IfStmt" ->
            << Opt("Init", "Stmt"), Req("Cond", "Expr"),
               Req("Body", "BlockStmt"), Opt("Else", "Stmt") >>
      [] k = "CaseClause" -> << Helper("List", "Expr"), Helper("Body", "Stmt") >>
      [] k = "SwitchStmt" ->
            << Opt("Init", "Stmt"), Opt("Tag", "Expr"), Req("Body", "BlockStmt") >>
      [] k = "TypeSwitchStmt" ->
            << Opt("Init", "Stmt"), Req("Assign", "Stmt"),
               Req("Body", "BlockStmt") >>
      [] k = "CommClause" -> << Opt("Comm", "Stmt"), Helper("Body", "Stmt") >>
      [] k = "SelectStmt" -> << Req("Body", "BlockStmt") >>
      [] k = "ForStmt" ->
            << Opt("Init", "Stmt"), Opt("Cond", "Expr"), Opt("Post", "Stmt"),
               Req("Body", "BlockStmt") >>
      [] k = "RangeStmt" ->
            << Opt("Key", "Expr"), Opt("Value", "Expr"), Req("X", "Expr"),
               Req("Body", "BlockStmt") >>
      [] k = "ImportSpec" ->
            << Opt("Doc", "CommentGroup"), Opt("Name", "Ident"),
               Req("Path", "BasicLit"), Opt("Comment", "CommentGroup") >>
      [] k = "ValueSpec" ->
            << Opt("Doc", "CommentGroup"), Helper("Names", "Ident"),
               Opt("Type", "Expr"), Helper("Values", "Expr"),
               Opt("Comment", "CommentGroup") >>
      [] k = "TypeSpec" ->
            << Opt("Doc", "CommentGroup"), Req("Name", "Ident"),
               Req("Type", "Expr"), Opt("Comment", "CommentGroup") >>
      [] k = "GenDecl" -> << Opt("Doc", "CommentGroup"), InPlace("Specs", "Spec") >>
      [] k = "FuncDecl" ->
            << Opt("Doc", "CommentGroup"), Opt("Recv", "FieldList"),
               Req("Name", "Ident"), Req("Type", "FuncType"),
               Opt("Body", "BlockStmt") >>
      [] k = "File" ->
            << Opt("Doc", "CommentGroup"), Req("Name", "Ident"),
               Helper("Decls", "Decl"), Unwalked("Comments") >>
      [] k = "Package" -> << MapRange("Files", "File") >>
      [] OTHER -> << >>

\* The variant families the type assertions of the switch name.
ExprKinds ==
    { "BadExpr", "Ident", "Ellipsis", "BasicLit", "FuncLit", "CompositeLit",
      "ParenExpr", "SelectorExpr", "IndexExpr", "SliceExpr", "TypeAssertExpr",
      "CallExpr", "StarExpr", "UnaryExpr", "BinaryExpr", "KeyValueExpr",
      "ArrayType", "StructType", "FuncType", "InterfaceType", "MapType",
      "ChanType", "IndexListExpr" }

StmtKinds ==
    { "BadStmt", "DeclStmt", "EmptyStmt", "LabeledStmt", "ExprStmt",
      "SendStmt", "IncDecStmt", "AssignStmt", "GoStmt", "DeferStmt",
      "ReturnStmt", "BranchStmt", "BlockStmt", "IfStmt", "CaseClause",
      "SwitchStmt", "TypeSwitchStmt", "CommClause", "SelectStmt", "ForStmt",
      "RangeStmt" }

DeclKinds == { "BadDecl", "GenDecl", "FuncDecl" }

SpecKinds == { "ImportSpec", "ValueSpec", "TypeSpec" }

\* The variants that go into a slot of type T: those of the family when T is
\* an interface (ast.Expr, ast.Stmt, ast.Decl, ast.Spec), else T itself.
Family(t) ==
    CASE t = "Expr" -> ExprKinds
      [] t = "Stmt" -> StmtKinds
      [] t = "Decl" -> DeclKinds
      [] t = "Spec" -> SpecKinds
      [] OTHER -> { t }

\* An assignment that takes whatever Inspect returns.
ConformsAlways(k, t) == TRUE

\* x.(T): whether a node of variant k passes the type assertion to T. The nil
\* interface (variant "nil") passes no assertion.
Conforms(k, t) ==
    CASE t = "Expr" -> k \in ExprKinds
      [] t = "Stmt" -> k \in StmtKinds
      [] t = "Decl" -> k \in DeclKinds
      [] t = "Spec" -> k \in SpecKinds
      [] OTHER -> k = t

\* ------------------------------------------------------ the node universe

\* A child slot: a single child (v of length one), an absent child or nil list
\* (isNil), or a list of children. Node 0 is the nil interface.
Nil == [isNil |-> TRUE, v |-> << >>]
One(n) == [isNil |-> FALSE, v |-> << n >>]
List(s) == [isNil |-> FALSE, v |-> s]

\* The variant of every node of the universe. "IndexListExpr" is an expression
\* variant that has no case in the switch.
NodeKind ==
    << "BlockStmt", "ExprStmt", "StarExpr", "Ident", "ReturnStmt",
       "CommentGroup", "Comment", "Comment",
       "FuncDecl", "Ident", "FuncType",
       "File", "CommentGroup", "Comment", "Ident",
       "Package", "File", "Ident", "File", "Ident",
       "ExprStmt",
       "ParenExpr", "IndexListExpr",
       "SelectorExpr", "Ident", "Ident",
       "EmptyStmt", "IndexListExpr", "Comment" >>

Nodes == DOMAIN NodeKind

KindOf(n) == IF n = 0 THEN "nil" ELSE NodeKind[n]

\* The trees handed to Inspect (by root) and the fresh nodes a visitor may pass
\* to Replace. Slots are aligned with Fields(KindOf(n)).
Heap0 ==
    << \* 1: { *p ; return }  as a block
       << List(<< 2, 5 >>) >>,
       << One(3) >>,
       << One(4) >>,
       << >>,
       << Nil >>,
       \* 6: a comment group of two comments
       << List(<< 7, 8 >>) >>,
       << >>,
       << >>,
       \* 9: a function declaration without doc, receiver, parameters or body
       << Nil, Nil, One(10), One(11), Nil >>,
       << >>,
       << Nil, Nil >>,
       \* 12: a file without declarations whose doc comment is also in its
       \* comment collection
       << One(13), One(15), Nil, List(<< 13 >>) >>,
       << List(<< 14 >>) >>,
       << >>,
       << >>,
       \* 16: a package of two files
       << List(<< 17, 19 >>) >>,
       << Nil, One(18), Nil, Nil >>,
       << >>,
       << Nil, One(20), List(<< >>), Nil >>,
       << >>,
       \* 21: an expression statement whose expression is absent
       << Nil >>,
       \* 22: a parenthesized expression of a variant unknown to the switch
       << One(23) >>,
       << >>,
       \* 24.. : the nodes a visitor builds: pkg.InterfaceName, an empty
       \* statement, an expression of an unknown variant, a comment
       << One(25), One(26) >>,
       << >>,
       << >>,
       << >>,
       << >>,
       << >> >>

Roots == { 1, 6, 9, 12, 16, 21, 22 }

Spares == { 24, 27, 28, 29 }

\* What a visitor may pass to Replace: a node it built, or nil.
ReplaceArgs == Spares \cup { 0 }

\* ------------------------------------------------------------------ state

Threads == { 1, 2 }

VARIABLES
    engine,     \* "method": inspectorImpl.Inspect; "free": Inspect(i, node)
    heap,       \* the child slots of every node
    stack,      \* per thread: the frames of the recursive Inspect calls
    status,     \* per thread: "idle", "running", "done", "fatal", "typefail"
    result,     \* per thread: what the outermost Inspect returned
    root,       \* per thread: the node Inspect was called with
    cursor,     \* inspectorImpl.node
    mtx,        \* inspectorImpl.mtx: 0 when free, else the holding thread
    trace,      \* per thread: the visitor invocations made so far
    avail,      \* what the visitor may still pass to Replace
    nrepl       \* the number of Replace calls made

vars ==
    << engine, heap, stack, status, result, root, cursor, mtx, trace, avail,
       nrepl >>

Panicked == { "fatal", "typefail" }

\* The frame of a call Inspect(n).
NewFrame(n) ==
    [ pc |-> "Lock", arg |-> n, node |-> n, closing |-> FALSE, res |-> FALSE,
      repl |-> 0, repd |-> FALSE, rep |-> 0, fi |-> 0, ei |-> 0, cur |-> 0,
      list |-> << >>, newList |-> << >>, seen |-> {} ]

Top(t) == stack[t][Len(stack[t])]

WithTop(t, f) == [stack EXCEPT ![t] = [@ EXCEPT ![Len(@)] = f]]

\* A thread takes steps while its walk is in flight; a panic in any goroutine
\* ends the process.
Running(t) ==
    /\ status[t] = "running"
    /\ \A u \in Threads : status[u] \notin Panicked

At(t, pc) == Running(t) /\ Top(t).pc = pc

\* ------------------------------------------------------------------ Visit

\* A Lock that does not wait.
MutexFreeAlways(m) == TRUE

\* i.mtx.Lock() returns only when the mutex is free.
MutexFree(m) == m = 0

\* Current(): return i.node
Current == cursor

\* The node Visit is called with: the node of the call, nil in a closing call.
VisitArg(f) == IF f.closing THEN 0 ELSE f.arg

\* i.mtx.Lock()
Lock(t) ==
    /\ At(t, "Lock")
    /\ MutexFree(mtx)
    /\ mtx' = t
    /\ stack' = WithTop(t, [Top(t) EXCEPT !.pc = "Set"])
    /\ UNCHANGED << engine, heap, status, result, root, cursor, trace, avail, nrepl >>

\* A Visit that does not store its argument.
StoredNothing(n, c) == c

\* The cursor after  i.node = n.
Stored(n, c) == n

\* i.node = n
SetCursor(t) ==
    /\ At(t, "Set")
    /\ cursor' = Stored(VisitArg(Top(t)), cursor)
    /\ stack' = WithTop(t, [Top(t) EXCEPT !.pc = "Call", !.repd = FALSE, !.rep = 0])
    /\ UNCHANGED << engine, heap, status, result, root, mtx, trace, avail, nrepl >>

\* The visitor, inside its callback, calls i.Replace(b): i.node = b. A built
\* node is passed to Replace once.
VisitorReplace(t, b) ==
    /\ At(t, "Call")
    /\ nrepl < MaxReplace
    /\ b \in avail
    /\ cursor' = b
    /\ avail' = avail \ (Spares \cap { b })
    /\ nrepl' = nrepl + 1
    /\ stack' = WithTop(t, [Top(t) EXCEPT !.repd = TRUE, !.rep = b])
    /\ UNCHANGED << engine, heap, status, result, root, mtx, trace >>

\* Where Visit goes on once the visitor has returned: the method-based Visit
\* reads the cursor back and clears it, the continuation-only Visit just returns.
AfterCallback(e) == IF e = "method" THEN "Capture" ELSE "Unlock"

\* The record of one visitor invocation: its node argument, whether it is a
\* closing call (and of which node), the last node the callback passed to
\* Replace, what it returned (a closing call's result is discarded), the depth
\* of the recursion, and (got) the replacement Visit read back afterwards.
Invocation(t, f, r) ==
    [ arg |-> VisitArg(f), closing |-> f.closing,
      of |-> IF f.closing THEN f.node ELSE 0,
      replaced |-> f.repd, repl |-> f.rep,
      result |-> IF f.closing THEN FALSE ELSE r,
      depth |-> Len(stack[t]), got |-> -1 ]

\* result := i.visitorImpl(i, n): the callback returns r.
VisitorReturn(t, r) ==
    /\ At(t, "Call")
    /\ trace' = [trace EXCEPT ![t] = Append(@, Invocation(t, Top(t), r))]
    /\ stack' = WithTop(t, [Top(t) EXCEPT !.res = r, !.pc = AfterCallback(engine)])
    /\ UNCHANGED << engine, heap, status, result, root, cursor, mtx, avail, nrepl >>

\* Visit handing back the node it was called with.
CapturedStale(f, c) == VisitArg(f)

\* replacement := i.node
Captured(f, c) == c

Capture(t) ==
    /\ At(t, "Capture")
    /\ stack' = WithTop(t, [Top(t) EXCEPT !.repl = Captured(Top(t), cursor),
                                          !.pc = "Clear"])
    /\ trace' = [trace EXCEPT ![t] =
                    [@ EXCEPT ![Len(@)].got = Captured(Top(t), cursor)]]
    /\ UNCHANGED << engine, heap, status, result, root, cursor, mtx, avail, nrepl >>

\* A Visit that leaves the cursor as the callback left it.
ClearedStale(c) == c

\* The cursor after  i.node = nil.
Cleared(c) == 0

\* i.node = nil
Clear(t) ==
    /\ At(t, "Clear")
    /\ cursor' = Cleared(cursor)
    /\ stack' = WithTop(t, [Top(t) EXCEPT !.pc = "Unlock"])
    /\ UNCHANGED << engine, heap, status, result, root, mtx, trace, avail, nrepl >>

\* Inspect going on with the node it was called with.
InspectNodeStale(e, f) == f.arg

\* The node Inspect goes on with after the pre-order Visit: the method-based
\* engine assigns Visit's replacement to node, walk.go keeps its argument.
InspectNode(e, f) == IF e = "method" THEN f.repl ELSE f.arg

\* Inspect making the closing call also after a stop.
AfterVisitClosingOnStop(e, f) ==
    IF f.closing
    THEN [f EXCEPT !.pc = "Return", !.res = FALSE]
    ELSE [f EXCEPT !.node = InspectNode(e, f),
                   !.pc = IF f.res THEN "Dispatch" ELSE "Lock",
                   !.closing = ~f.res]

\* Inspect descending whatever the visitor returned.
AfterVisitDescend(e, f) ==
    IF f.closing
    THEN [f EXCEPT !.pc = "Return", !.res = FALSE]
    ELSE [f EXCEPT !.node = InspectNode(e, f), !.pc = "Dispatch"]

\* Inspect returning the node a closing call's callback passed to Replace.
AfterVisitClosingReplace(e, f) ==
    IF f.closing
    THEN [f EXCEPT !.pc = "Return", !.res = FALSE,
                   !.node = IF f.repd THEN f.rep ELSE f.node]
    ELSE [f EXCEPT !.node = InspectNode(e, f),
                   !.pc = IF f.res THEN "Dispatch" ELSE "Return"]

\* Inspect after Visit has returned: a closing call's results are discarded;
\* after a pre-order call Inspect returns at once when the visitor said stop.
AfterVisit(e, f) ==
    IF f.closing
    THEN [f EXCEPT !.pc = "Return", !.res = FALSE]
    ELSE [f EXCEPT !.node = InspectNode(e, f),
                   !.pc = IF f.res THEN "Dispatch" ELSE "Return"]

\* i.mtx.Unlock(), and Visit returns to Inspect.
Unlock(t) ==
    /\ At(t, "Unlock")
    /\ mtx' = 0
    /\ stack' = WithTop(t, AfterVisit(engine, Top(t)))
    /\ UNCHANGED << engine, heap, status, result, root, cursor, trace, avail, nrepl >>

\* ---------------------------------------------------------------- Inspect

\* switch n := node.(type): the variant has a case.
HasCase(n) == KindOf(n) \in Kinds

DispatchCase(t) ==
    /\ At(t, "Dispatch")
    /\ HasCase(Top(t).node)
    /\ stack' = WithTop(t, [Top(t) EXCEPT !.pc = "Field", !.fi = 1])
    /\ UNCHANGED << engine, heap, status, result, root, cursor, mtx, trace, avail, nrepl >>

\* default: panic("astor.Inspect")
DispatchDefault(t) ==
    /\ At(t, "Dispatch")
    /\ ~HasCase(Top(t).node)
    /\ status' = [status EXCEPT ![t] = "fatal"]
    /\ UNCHANGED << engine, heap, stack, result, root, cursor, mtx, trace, avail, nrepl >>

FieldsOf(f) == Fields(KindOf(f.node))

Desc(f) == FieldsOf(f)[f.fi]

Slot(f) == heap[f.node][f.fi]

\* The case has walked all its fields: ii.Visit(nil).
FieldsDone(t) ==
    /\ At(t, "Field")
    /\ Top(t).fi > Len(FieldsOf(Top(t)))
    /\ stack' = WithTop(t, [Top(t) EXCEPT !.closing = TRUE, !.pc = "Lock"])
    /\ UNCHANGED << engine, heap, status, result, root, cursor, mtx, trace, avail, nrepl >>

\* A case that passes an optional child to Inspect without the nil check.
WalkedAlways(d, s) == d.mode \in { "req", "opt" }

\* Whether the case passes the field to Inspect: always for a field it walks
\* unconditionally, only when present for one under  if n.F != nil.
Walked(d, s) == d.mode = "req" \/ (d.mode = "opt" /\ ~s.isNil)

Skipped(d, s) == d.mode = "unwalked" \/ (d.mode = "opt" /\ s.isNil)

\* An absent optional child, or a collection the case does not walk.
SkipField(t) ==
    /\ At(t, "Field")
    /\ Top(t).fi <= Len(FieldsOf(Top(t)))
    /\ Skipped(Desc(Top(t)), Slot(Top(t)))
    /\ stack' = WithTop(t, [Top(t) EXCEPT !.fi = @ + 1])
    /\ UNCHANGED << engine, heap, status, result, root, cursor, mtx, trace, avail, nrepl >>

SlotNode(s) == IF s.isNil THEN 0 ELSE s.v[1]

\* ii.Inspect(n.F): the recursive call for a single child.
DescendChild(t) ==
    /\ At(t, "Field")
    /\ Top(t).fi <= Len(FieldsOf(Top(t)))
    /\ Walked(Desc(Top(t)), Slot(Top(t)))
    /\ stack' = [stack EXCEPT ![t] =
                    Append(WithTop(t, [Top(t) EXCEPT !.pc = "AwaitChild"])[t],
                           NewFrame(SlotNode(Slot(Top(t)))))]
    /\ UNCHANGED << engine, heap, status, result, root, cursor, mtx, trace, avail, nrepl >>

ListModes == { "helper", "inplace", "maprange" }

\* newList := make([]T, len(list))
MakeList(n) == [k \in 1 .. n |-> 0]

\* Entering a list: the helper makes its new list; a range loop evaluates its
\* range expression once.
ListStart(t) ==
    /\ At(t, "Field")
    /\ Top(t).fi <= Len(FieldsOf(Top(t)))
    /\ Desc(Top(t)).mode \in ListModes
    /\ stack' = WithTop(t,
            [Top(t) EXCEPT !.pc = "Elem", !.ei = 0, !.seen = {},
                           !.list = Slot(Top(t)).v,
                           !.newList = IF Desc(Top(t)).mode = "helper"
                                       THEN MakeList(Len(Slot(Top(t)).v))
                                       ELSE << >>])
    /\ UNCHANGED << engine, heap, status, result, root, cursor, mtx, trace, avail, nrepl >>

\* A loop that may take an element it has already taken.
NextIndicesAgain(f, mode) == DOMAIN f.list

\* The indices the loop may take next: the next one of a slice; any entry not
\* yet produced of a map (Go leaves the iteration order of a map unspecified).
NextIndices(f, mode) ==
    IF mode = "maprange"
    THEN DOMAIN f.list \ f.seen
    ELSE { k \in DOMAIN f.list : k = f.ei + 1 }

\* Inspect(x) for the next element of the list.
ElemDescend(t) ==
    /\ At(t, "Elem")
    /\ \E k \in NextIndices(Top(t), Desc(Top(t)).mode) :
          stack' = [stack EXCEPT ![t] =
                      Append(WithTop(t, [Top(t) EXCEPT !.pc = "AwaitElem",
                                                       !.cur = k])[t],
                             NewFrame(Top(t).list[k]))]
    /\ UNCHANGED << engine, heap, status, result, root, cursor, mtx, trace, avail, nrepl >>

\* What the end of a list's loop leaves in the parent's field: a helper's
\* caller assigns the new list to the field; a range loop has assigned in place.
ListResult(f, mode, s) ==
    IF mode = "helper" THEN [isNil |-> FALSE, v |-> f.newList] ELSE s

ListEnd(t) ==
    /\ At(t, "Elem")
    /\ NextIndices(Top(t), Desc(Top(t)).mode) = {}
    /\ heap' = [heap EXCEPT ![Top(t).node][Top(t).fi] =
                    ListResult(Top(t), Desc(Top(t)).mode, @)]
    /\ stack' = WithTop(t, [Top(t) EXCEPT !.pc = "Field", !.fi = @ + 1,
                                          !.list = << >>, !.newList = << >>,
                                          !.seen = {}, !.ei = 0, !.cur = 0])
    /\ UNCHANGED << engine, status, result, root, cursor, mtx, trace, avail, nrepl >>

\* The frame that called the top frame.
Parent(t) == stack[t][Len(stack[t]) - 1]

\* The outermost Inspect returns node.
ReturnRoot(t) ==
    /\ At(t, "Return")
    /\ Len(stack[t]) = 1
    /\ result' = [result EXCEPT ![t] = Top(t).node]
    /\ status' = [status EXCEPT ![t] = "done"]
    /\ stack' = [stack EXCEPT ![t] = << >>]
    /\ UNCHANGED << engine, heap, root, cursor, mtx, trace, avail, nrepl >>

\* The parent's frame once the child's result n has passed the type assertion
\* and has been assigned: to the field, to the element of the field's list, or
\* to the element of the helper's new list.
Assigned(p, mode, n) ==
    CASE mode = "helper" ->
            [p EXCEPT !.pc = "Elem", !.newList[p.cur] = n, !.ei = @ + 1,
                      !.seen = @ \cup { p.cur }]
      [] mode \in { "inplace", "maprange" } ->
            [p EXCEPT !.pc = "Elem", !.ei = @ + 1, !.seen = @ \cup { p.cur }]
      [] OTHER -> [p EXCEPT !.pc = "Field", !.fi = @ + 1]

\* A helper that writes each result into the list it was handed.
AssignedSlotInPlace(p, mode, n, s) ==
    CASE mode \in ListModes -> [s EXCEPT !.v[p.cur] = n]
      [] OTHER -> One(n)

\* The parent's slot once the child's result n has been assigned.
AssignedSlot(p, mode, n, s) ==
    CASE mode = "helper" -> s
      [] mode \in { "inplace", "maprange" } -> [s EXCEPT !.v[p.cur] = n]
      [] OTHER -> One(n)

\* A recursive Inspect returns node and its result passes .(T).
ReturnToParent(t) ==
    /\ At(t, "Return")
    /\ Len(stack[t]) > 1
    /\ Conforms(KindOf(Top(t).node), Desc(Parent(t)).type)
    /\ heap' = [heap EXCEPT ![Parent(t).node][Parent(t).fi] =
                    AssignedSlot(Parent(t), Desc(Parent(t)).mode, Top(t).node, @)]
    /\ stack' = [stack EXCEPT ![t] =
                    Append(SubSeq(@, 1, Len(@) - 2),
                           Assigned(Parent(t), Desc(Parent(t)).mode, Top(t).node))]
    /\ UNCHANGED << engine, status, result, root, cursor, mtx, trace, avail, nrepl >>

\* A recursive Inspect returns a node that fails .(T): the assertion panics.
ReturnTypeFail(t) ==
    /\ At(t, "Return")
    /\ Len(stack[t]) > 1
    /\ ~Conforms(KindOf(Top(t).node), Desc(Parent(t)).type)
    /\ status' = [status EXCEPT ![t] = "typefail"]
    /\ UNCHANGED << engine, heap, stack, result, root, cursor, mtx, trace, avail, nrepl >>

\* ---------------------------------------------------------- specifications

\* One step of thread t under the method-based engine.
Step(t) ==
    \/ Lock(t)
    \/ SetCursor(t)
    \/ \E b \in ReplaceArgs : VisitorReplace(t, b)
    \/ \E r \in BOOLEAN : VisitorReturn(t, r)
    \/ Capture(t)
    \/ Clear(t)
    \/ Unlock(t)
    \/ DispatchCase(t)
    \/ DispatchDefault(t)
    \/ FieldsDone(t)
    \/ SkipField(t)
    \/ DescendChild(t)
    \/ ListStart(t)
    \/ ElemDescend(t)
    \/ ListEnd(t)
    \/ ReturnRoot(t)
    \/ ReturnToParent(t)
    \/ ReturnTypeFail(t)

InitWith(e, r1, r2, pool) ==
    /\ engine = e
    /\ heap = Heap0
    /\ root = [t \in Threads |-> IF t = 1 THEN r1 ELSE r2]
    /\ stack = [t \in Threads |->
                    IF (IF t = 1 THEN r1 ELSE r2) = 0 THEN << >>
                    ELSE << NewFrame(IF t = 1 THEN r1 ELSE r2) >>]
    /\ status = [t \in Threads |->
                    IF (IF t = 1 THEN r1 ELSE r2) = 0 THEN "idle" ELSE "running"]
    /\ result = [t \in Threads |-> 0]
    /\ cursor = 0
    /\ mtx = 0
    /\ trace = [t \in Threads |-> << >>]
    /\ avail = pool
    /\ nrepl = 0

\* One walk by the method-based engine: NewInspector(v).Inspect(root).
Init == \E r \in Roots : InitWith("method", r, 0, ReplaceArgs)

Next == \E t \in Threads : Step(t)

Spec == Init /\ [][Next]_vars

\* The same walk when it is left to run: the goroutine keeps taking the steps
\* of Inspect, and a callback that is running returns.
SpecLive == Init /\ [][Next]_vars /\ WF_vars(Next)

\* The visitor, inside its callback, calls i.Inspect(i.Current()) on the
\* Inspector it was handed: a new call of Inspect, which starts with Visit.
VisitorReenter(t) ==
    /\ At(t, "Call")
    /\ stack' = [stack EXCEPT ![t] = Append(@, NewFrame(Current))]
    /\ UNCHANGED << engine, heap, status, result, root, cursor, mtx, trace, avail, nrepl >>

\* A walk, by either engine, whose visitor may call back into its Inspector;
\* it passes nil or an empty statement to Replace.
ReenterPool == { 0, 27 }

InitReenter ==
    \E e \in { "method", "free" } : \E r \in Roots : InitWith(e, r, 0, ReenterPool)

NextReenter == \E t \in Threads : Step(t) \/ VisitorReenter(t)

SpecReenter == InitReenter /\ [][NextReenter]_vars

\* One step of thread t under walk.go's Inspect(i, node), whose Visit neither
\* reads the cursor back nor clears it.
StepFree(t) ==
    \/ Lock(t)
    \/ SetCursor(t)
    \/ \E b \in ReplaceArgs : VisitorReplace(t, b)
    \/ \E r \in BOOLEAN : VisitorReturn(t, r)
    \/ Unlock(t)
    \/ DispatchCase(t)
    \/ DispatchDefault(t)
    \/ FieldsDone(t)
    \/ SkipField(t)
    \/ DescendChild(t)
    \/ ListStart(t)
    \/ ElemDescend(t)
    \/ ListEnd(t)
    \/ ReturnRoot(t)
    \/ ReturnToParent(t)
    \/ ReturnTypeFail(t)

\* One walk by the free-function engine: Inspect(NewInspector(v), root).
InitFree == \E r \in Roots : InitWith("free", r, 0, ReplaceArgs)

NextFree == \E t \in Threads : StepFree(t)

SpecFree == InitFree /\ [][NextFree]_vars

\* Two goroutines walk their own trees through one Inspector (method-based
\* engine); the visitor passes nil, a comment or an empty statement to Replace.
ConcRoots1 == { 9 }

ConcRoots2 == { 13 }

ConcPool == { 0, 27, 29 }

InitConc ==
    \E r1 \in ConcRoots1 : \E r2 \in ConcRoots2 :
        InitWith("method", r1, r2, ConcPool)

SpecConc == InitConc /\ [][Next]_vars

\* ------------------------------------------------- reading the history

Range(q) == { q[k] : k \in DOMAIN q }

\* The node a pre-order invocation leaves in place of its argument: the last
\* node its callback passed to Replace, else the argument itself.
Eff(e) == IF e.replaced THEN e.repl ELSE e.arg

\* The pre-order invocations of thread t made for node c.
PreIdx(t, c) == { i \in DOMAIN trace[t] : ~trace[t][i].closing /\ trace[t][i].arg = c }

\* The result the visitor's own choices give the call Inspect(c) of thread t.
Res(t, c) == Eff(trace[t][CHOOSE i \in PreIdx(t, c) : TRUE])

\* The children a node had before the walk, and everything below it.
Children0(n) == IF n = 0 THEN {} ELSE UNION { Range(Heap0[n][j].v) : j \in DOMAIN Heap0[n] }

RECURSIVE Desc0(_)
Desc0(n) == Children0(n) \cup UNION { Desc0(c) : c \in Children0(n) }

\* The children of slot j of node p that Inspect is called for, as they were
\* before the walk: none of an absent optional child or of an unwalked
\* collection, nil for an absent child that is walked unconditionally.
Walked0(p, j) ==
    LET d == Fields(KindOf(p))[j]
        s == Heap0[p][j]
    IN  CASE d.mode = "unwalked" -> << >>
          [] d.mode = "req" /\ s.isNil -> << 0 >>
          [] OTHER -> s.v

\* Slot j of node p holds, child by child, the results of thread t's calls.
SlotHolds(t, p, j) ==
    LET d == Fields(KindOf(p))[j]
        w == Walked0(p, j)
    IN  IF d.mode = "unwalked" \/ (d.mode = "opt" /\ Heap0[p][j].isNil)
        THEN heap[p][j] = Heap0[p][j]
        ELSE heap[p][j].v = [k \in DOMAIN w |-> Res(t, w[k])]

\* Node n sits in some child slot.
Held(n) ==
    \E p \in Nodes : \E j \in DOMAIN heap[p] :
        \E k \in DOMAIN heap[p][j].v : heap[p][j].v[k] = n

\* ----------------------------------------------------------------- claims

\* C1: in the method-based engine, once the walk of a parent P has finished
\* (its closing call is made), every slot of P holds the result of the call
\* made for its original child: the node passed to Replace during that child's
\* pre-order callback (of whatever admissible variant, whether the callback
\* returned continue or stop), else the child itself; and Inspect returns that
\* result for the root.
C1_ReplacementInstalled ==
    /\ \A i \in DOMAIN trace[1] :
          trace[1][i].closing =>
             \A j \in DOMAIN Heap0[trace[1][i].of] : SlotHolds(1, trace[1][i].of, j)
    /\ status[1] = "done" => result[1] = Res(1, root[1])

\* A finished walk in which one child was replaced by a node of another variant
\* with continue and another with stop, and both replacements sit in the tree.
C1_Witness ==
    /\ status[1] = "done"
    /\ \E i, k \in DOMAIN trace[1] :
          /\ trace[1][i].replaced /\ trace[1][k].replaced
          /\ trace[1][i].result /\ ~trace[1][k].result
          /\ KindOf(trace[1][i].repl) # KindOf(trace[1][i].arg)
          /\ KindOf(trace[1][k].repl) # KindOf(trace[1][k].arg)
          /\ Held(trace[1][i].repl) /\ Held(trace[1][k].repl)

\* The nodes whose children are being walked after the first i invocations of
\* q, innermost last, as the invocations themselves tell: a pre-order call that
\* returned continue opens its node, a closing call must close the innermost
\* open node, a pre-order call that returned stop opens nothing; a call is
\* made by the Inspect call of the innermost open node (a closing call) or by
\* one a level further down (a pre-order call).
RECURSIVE Scan(_, _)
Scan(q, i) ==
    IF i = 0 THEN [ok |-> TRUE, open |-> << >>]
    ELSE LET p == Scan(q, i - 1)
             e == q[i]
         IN  IF ~p.ok THEN p
             ELSE IF e.depth # Len(p.open) + (IF e.closing THEN 0 ELSE 1)
             THEN [ok |-> FALSE, open |-> p.open]
             ELSE IF e.closing
             THEN IF Len(p.open) > 0 /\ p.open[Len(p.open)] = e.of
                  THEN [ok |-> TRUE, open |-> SubSeq(p.open, 1, Len(p.open) - 1)]
                  ELSE [ok |-> FALSE, open |-> p.open]
             ELSE IF e.result THEN [ok |-> TRUE, open |-> Append(p.open, Eff(e))]
             ELSE p

\* C2: the invocations of one Inspect call nest like balanced brackets: every
\* closing call closes the innermost node whose pre-order call returned
\* continue and that is not closed yet (so it follows the calls of that node's
\* children, and a node has at most one), a pre-order call that returned stop
\* gets none, and when Inspect returns every node that returned continue,
\* childless or not, has had its closing call.
C2_Nested ==
    /\ Scan(trace[1], Len(trace[1])).ok
    /\ status[1] = "done" => Scan(trace[1], Len(trace[1])).open = << >>

\* A finished walk with a closing call for a childless node, a closing call
\* for a node with children, and a pre-order call that returned stop.
C2_Witness ==
    /\ status[1] = "done"
    /\ \E i, k, m \in DOMAIN trace[1] :
          /\ trace[1][i].closing /\ Children0(trace[1][i].of) = {}
          /\ trace[1][k].closing /\ Children0(trace[1][k].of) # {}
          /\ ~trace[1][m].closing /\ ~trace[1][m].result

\* C3: after a pre-order call for A that returned stop, no node below A (or
\* below the node A was replaced by in that call) is ever the subject of a
\* visitor call, and every child slot of that subtree holds what it held
\* before the walk.
C3_StopHonoured ==
    \A i \in DOMAIN trace[1] :
       LET e == trace[1][i] IN
       (~e.closing /\ ~e.result) =>
          /\ \A n \in Desc0(e.arg) \cup Desc0(Eff(e)) :
                \A k \in DOMAIN trace[1] : trace[1][k].arg # n /\ trace[1][k].of # n
          /\ \A n \in ({ e.arg, Eff(e) } \cup Desc0(e.arg) \cup Desc0(Eff(e))) \ { 0 } :
                heap[n] = Heap0[n]

\* A finished walk that stopped at a node with children which the callback
\* replaced by a node with children, and went on to visit a later sibling.
C3_Witness ==
    /\ status[1] = "done"
    /\ \E i, m \in DOMAIN trace[1] :
          /\ ~trace[1][i].closing /\ ~trace[1][i].result /\ trace[1][i].replaced
          /\ Desc0(trace[1][i].arg) # {}
          /\ Desc0(trace[1][i].repl) # {}
          /\ m > i /\ ~trace[1][m].closing

\* The node arguments of the pre-order invocations of q, in order.
RECURSIVE PreArgs(_)
PreArgs(q) ==
    IF q = << >> THEN << >>
    ELSE LET r == PreArgs(SubSeq(q, 1, Len(q) - 1))
         IN  IF q[Len(q)].closing THEN r ELSE Append(r, q[Len(q)].arg)

IsPrefix(a, b) == Len(a) <= Len(b) /\ a = SubSeq(b, 1, Len(a))

\* The visitor has so far always returned continue and never called Replace.
IdentityRun ==
    \A i \in DOMAIN trace[1] :
       ~trace[1][i].replaced /\ (trace[1][i].closing \/ trace[1][i].result)

\* The orders in which the elements of w may be taken: all of them.
Orders(w) == { p \in [DOMAIN w -> Range(w)] : Range(p) = Range(w) }

\* The depth-first enumerations of the tree below n, as it was before the
\* walk: the node, then its child fields in declared order, a list's elements
\* from first to last; stored tells whether the files of a package come in
\* the order they are listed in or in any order.
RECURSIVE PreOrders(_, _), FieldSeqs(_, _, _), ElemSeqs(_, _, _)
PreOrders(n, stored) ==
    IF n = 0 THEN { << 0 >> }
    ELSE { << n >> \o s : s \in FieldSeqs(n, 1, stored) }

FieldSeqs(n, j, stored) ==
    IF j > Len(Heap0[n]) THEN { << >> }
    ELSE LET w == Walked0(n, j)
             ws == IF Fields(KindOf(n))[j].mode = "maprange" /\ ~stored
                   THEN Orders(w) ELSE { w }
         IN  { a \o b : a \in UNION { ElemSeqs(x, 1, stored) : x \in ws },
                        b \in FieldSeqs(n, j + 1, stored) }

ElemSeqs(w, k, stored) ==
    IF k > Len(w) THEN { << >> }
    ELSE { a \o b : a \in PreOrders(w[k], stored), b \in ElemSeqs(w, k + 1, stored) }

C5_Identity ==
    (status[1] = "done" /\ IdentityRun) =>
        result[1] = root[1] /\ heap = Heap0

\* The children Inspect is called for when it walks node b, in order.
RECURSIVE ChildSeq0(_, _)
ChildSeq0(b, j) ==
    IF j > Len(Heap0[b]) THEN << >> ELSE Walked0(b, j) \o ChildSeq0(b, j + 1)

\* The closing calls of node b.
Closings(t, b) == { i \in DOMAIN trace[t] : trace[t][i].closing /\ trace[t][i].of = b }

\* The pre-order calls made one level below invocation i, up to the closing
\* call of node b.
CallsBelow(i, b) ==
    LET q == trace[1]
        last == IF \E c \in Closings(1, b) : c > i
                THEN (CHOOSE c \in Closings(1, b) : c > i) - 1 ELSE Len(q)
        RECURSIVE Pick(_)
        Pick(k) ==
            IF k > last THEN << >>
            ELSE IF ~q[k].closing /\ q[k].depth = q[i].depth + 1
                 THEN << q[k].arg >> \o Pick(k + 1) ELSE Pick(k + 1)
    IN  Pick(i + 1)

\* C6: when the pre-order callback for A calls Replace(B) and returns
\* continue, the next pre-order calls one level down are for B's children in
\* B's field order (all of them once B's closing call is made), no node that
\* is below A and not below B is visited, B gets no pre-order call of its own,
\* and B gets one closing call (exactly one when Inspect returns).
C6_DispatchOnReplacement ==
    \A i \in DOMAIN trace[1] :
       LET e == trace[1][i] IN
       (~e.closing /\ e.replaced /\ e.result /\ e.repl # 0) =>
          /\ IsPrefix(CallsBelow(i, e.repl), ChildSeq0(e.repl, 1))
          /\ Closings(1, e.repl) # {} => CallsBelow(i, e.repl) = ChildSeq0(e.repl, 1)
          /\ \A n \in ({ e.arg } \cup Desc0(e.arg)) \ ({ 0, e.repl } \cup Desc0(e.repl)) :
                \A k \in DOMAIN trace[1] :
                   k # i => trace[1][k].arg # n /\ trace[1][k].of # n
          /\ PreIdx(1, e.repl) = {}
          /\ Cardinality(Closings(1, e.repl)) <= 1
          /\ \A c \in Closings(1, e.repl) : c > i
          /\ status[1] = "done" => Cardinality(Closings(1, e.repl)) = 1

\* A finished walk in which a node with a child was replaced, with continue,
\* by a node with two children of its own, both visited and then closed.
C6_Witness ==
    /\ status[1] = "done"
    /\ \E i \in DOMAIN trace[1] :
          /\ ~trace[1][i].closing /\ trace[1][i].replaced /\ trace[1][i].result
          /\ Children0(trace[1][i].arg) # {}
          /\ Len(CallsBelow(i, trace[1][i].repl)) = 2
          /\ i > 1

\* The frames of thread t that are walking the fields of their node.
Walking(t) ==
    { d \in DOMAIN stack[t] :
         stack[t][d].pc \in { "Field", "AwaitChild", "Elem", "AwaitElem" } }

InList(p) == p.pc \in { "Elem", "AwaitElem" }

\* C7 as stated: at every moment of the walk of a parent P (so also when the
\* pre-order callback of the next sibling runs) each field already walked and
\* each list element whose recursive Inspect has returned holds that call's
\* result in P itself, lists walked by a list helper included.
C7_SlotsCurrent ==
    \A d \in Walking(1) :
       LET p == stack[1][d] IN
       /\ \A j \in 1 .. (p.fi - 1) : SlotHolds(1, p.node, j)
       /\ InList(p) =>
             \A k \in p.seen : heap[p.node][p.fi].v[k] = Res(1, p.list[k])

\* C7, amended: each single child slot and each element of a list walked by an
\* in-place range loop holds the result of the child's recursive Inspect as
\* soon as that call returns. Of a list walked by a list helper the results are
\* collected one by one in the helper's newly made list, while P's field keeps
\* the list it had; once the helper has walked every element the new list is
\* assigned to the field as a whole.
C7_SlotsAmended ==
    \A d \in Walking(1) :
       LET p == stack[1][d] IN
       /\ \A j \in 1 .. (p.fi - 1) :
             /\ SlotHolds(1, p.node, j)
             /\ Fields(KindOf(p.node))[j].mode = "helper" => ~heap[p.node][j].isNil
       /\ (InList(p) /\ Fields(KindOf(p.node))[p.fi].mode # "helper") =>
             \A k \in p.seen : heap[p.node][p.fi].v[k] = Res(1, p.list[k])
       /\ (InList(p) /\ Fields(KindOf(p.node))[p.fi].mode = "helper") =>
             /\ \A k \in p.seen : p.newList[k] = Res(1, p.list[k])
             /\ heap[p.node][p.fi] = Heap0[p.node][p.fi]

\* The pre-order callback of the second element of a helper-walked list runs
\* after the first element was replaced.
C7_Witness ==
    /\ Len(stack[1]) >= 2
    /\ Top(1).pc = "Call" /\ ~Top(1).closing
    /\ Parent(1).pc = "AwaitElem"
    /\ Fields(KindOf(Parent(1).node))[Parent(1).fi].mode = "helper"
    /\ \E k \in Parent(1).seen : Parent(1).newList[k] # Parent(1).list[k]

\* C8: in the free-function engine a node B passed to Replace during the
\* pre-order callback for A takes A's place: Inspect returns B when A is the
\* root, and once the walk of A's parent has finished the parent's slot holds B.
C8_FreeReplaceInstalled ==
    \A i \in DOMAIN trace[1] :
       LET e == trace[1][i] IN
       (~e.closing /\ e.replaced /\ e.repl # e.arg /\ e.repl # 0) =>
          /\ (status[1] = "done" /\ i = 1) => result[1] = e.repl
          /\ \A c \in DOMAIN trace[1] :
                trace[1][c].closing =>
                   \A j \in DOMAIN Heap0[trace[1][c].of] :
                      \A k \in DOMAIN Walked0(trace[1][c].of, j) :
                         (i > 1 /\ Walked0(trace[1][c].of, j)[k] = e.arg) =>
                             heap[trace[1][c].of][j].v[k] = e.repl

\* C9: a pre-order call that returned continue for a node whose variant (after
\* the replacement, nil included) has no case in the switch is the last visitor
\* call: Visit returns, the dispatch panics, no closing call and no further
\* call is made, and Inspect returns nothing.
C9_FatalOnUnknown ==
    \A i \in DOMAIN trace[1] :
       LET e == trace[1][i] IN
       (~e.closing /\ e.result /\ KindOf(Eff(e)) \notin Kinds) =>
          /\ i = Len(trace[1])
          /\ status[1] \in { "running", "fatal" }
          /\ status[1] = "running" =>
                /\ Len(stack[1]) = e.depth
                /\ Top(1).pc \in { "Capture", "Clear", "Unlock", "Dispatch" }

\* The threads that are inside Visit, between Lock and Unlock.
InVisit ==
    { t \in Threads :
         stack[t] # << >> /\ Top(t).pc \in { "Set", "Call", "Capture", "Clear", "Unlock" } }

\* C10: with two threads walking their own trees through one Inspector, at
\* most one thread is inside Visit (so at most one callback runs); the
\* replacement every Visit reads back is what its own callback left: the last
\* node it passed to Replace, else its own argument; and each thread's tree is
\* the one its own visitor's choices give: every walked node's slots hold the
\* results of its own calls, Inspect returns the result for its root, and a
\* node nobody walked is unchanged.
C10_Serialized ==
    /\ Cardinality(InVisit) <= 1
    /\ \A t \in Threads : \A i \in DOMAIN trace[t] :
          trace[t][i].got # -1 => trace[t][i].got = Eff(trace[t][i])
    /\ \A t \in Threads :
          /\ \A i \in DOMAIN trace[t] :
                trace[t][i].closing =>
                   \A j \in DOMAIN Heap0[trace[t][i].of] : SlotHolds(t, trace[t][i].of, j)
          /\ status[t] = "done" => result[t] = Res(t, root[t])
    /\ \A n \in Nodes :
          (\A t \in Threads : \A i \in DOMAIN trace[t] :
              ~(~trace[t][i].closing /\ trace[t][i].result /\ Eff(trace[t][i]) = n))
          => heap[n] = Heap0[n]

\* Thread 1's callback has called Replace and is still running while thread 2,
\* whose own first callback replaced its node, waits for the mutex.
C10_Witness ==
    /\ stack[1] # << >> /\ stack[2] # << >>
    /\ Top(1).pc = "Call" /\ Top(1).repd
    /\ Top(2).pc = "Lock"
    /\ Len(trace[2]) >= 1 /\ trace[2][1].replaced

\* The steps of one Visit of thread 1, as far as the visitor is concerned: the
\* record of invocations grows only when the callback running at the top
\* frame returns, by the one entry of that callback, whose node argument is
\* the node Visit stored; Visit leaves the callback only by that return.
C11_OneCall ==
    /\ Len(trace'[1]) # Len(trace[1]) =>
          /\ At(1, "Call")
          /\ Len(trace'[1]) = Len(trace[1]) + 1
          /\ trace'[1][Len(trace'[1])].arg = VisitArg(Top(1))
          /\ stack'[1][Len(stack[1])].pc = "Capture"
    /\ (stack[1] # << >> /\ Top(1).pc = "Call" /\ stack'[1] # stack[1]) =>
          \/ stack'[1][Len(stack[1])].pc = "Call" /\ Len(trace'[1]) = Len(trace[1])
          \/ stack'[1][Len(stack[1])].pc = "Capture" /\ Len(trace'[1]) = Len(trace[1]) + 1

\* Where the one walk stands outside Visit: between two visits, in the
\* dispatch recursion, after Inspect has returned or panicked.
OutsideVisit == stack[1] = << >> \/ Top(1).pc \notin { "Set", "Call", "Capture", "Clear", "Unlock" }

\* C11: in the method-based engine, with one walk in flight, the cursor is
\* nil whenever the walk is outside Visit (between two visits, while the
\* dispatch recursion runs, after Inspect has returned or panicked); inside
\* Visit it is nil before the node is stored and again from the clearing to
\* the return; what Visit hands back is what the cursor held when the
\* callback returned; and each Visit invokes the visitor exactly once, with
\* the node it stored.
C11_CursorCleared ==
    /\ [](/\ OutsideVisit => cursor = 0
          /\ (stack[1] # << >> /\ Top(1).pc \in { "Set", "Unlock" }) => cursor = 0
          /\ (stack[1] # << >> /\ Top(1).pc = "Clear") => Top(1).repl = cursor
          /\ (stack[1] # << >> /\ Top(1).pc \in { "Capture", "Clear", "Unlock" }) =>
                /\ trace[1] # << >>
                /\ trace[1][Len(trace[1])].arg = VisitArg(Top(1))
                /\ trace[1][Len(trace[1])].depth = Len(stack[1]))
    /\ [][C11_OneCall]_vars

\* The walk is back in the dispatch recursion, or has returned, after a
\* callback that passed a node to Replace: the cursor is nil again.
C11_Witness ==
    /\ OutsideVisit
    /\ cursor = 0
    /\ trace[1] # << >>
    /\ trace[1][Len(trace[1])].replaced
    /\ trace[1][Len(trace[1])].repl # 0
    /\ stack[1] # << >> /\ Top(1).pc = "Field"

\* What an invocation looks like to the visitor: its node argument, and for a
\* closing call the node whose walk it closes.
PreCall(c) == [arg |-> c, closing |-> FALSE, of |-> 0]

ClosingCall(b) == [arg |-> 0, closing |-> TRUE, of |-> b]

Shape(q) == [i \in DOMAIN q |-> [arg |-> q[i].arg, closing |-> q[i].closing, of |-> q[i].of]]

\* The invocations the pre-order callbacks' own choices give the call
\* Inspect(c): the pre-order call for c; when it returned continue and the
\* node it left has a case, the invocations of that node's children, field by
\* field, and the closing call. A node that has had no pre-order call yet
\* stands for itself. What a closing callback did plays no part.
RECURSIVE WalkSeqs(_), WalkFields(_, _), WalkElems(_, _)
WalkSeqs(c) ==
    IF PreIdx(1, c) = {} THEN { << PreCall(c) >> }
    ELSE LET e == trace[1][CHOOSE i \in PreIdx(1, c) : TRUE]
         IN  IF ~e.result \/ KindOf(Eff(e)) \notin Kinds
             THEN { << PreCall(c) >> }
             ELSE { << PreCall(c) >> \o s \o << ClosingCall(Eff(e)) >> :
                       s \in WalkFields(Eff(e), 1) }

WalkFields(b, j) ==
    IF j > Len(Heap0[b]) THEN { << >> }
    ELSE LET w == Walked0(b, j)
             ws == IF Fields(KindOf(b))[j].mode = "maprange" THEN Orders(w) ELSE { w }
         IN  { x \o y : x \in UNION { WalkElems(v, 1) : v \in ws },
                        y \in WalkFields(b, j + 1) }

WalkElems(w, k) ==
    IF k > Len(w) THEN { << >> }
    ELSE { x \o y : x \in WalkSeqs(w[k]), y \in WalkElems(w, k + 1) }

\* The walk of thread 1 has ended: Inspect has returned or panicked.
Terminated == status[1] \in { "done", "fatal", "typefail" }

\* The closing calls of thread 1 whose callback called Replace.
ClosingReplaces == { i \in DOMAIN trace[1] : trace[1][i].closing /\ trace[1][i].replaced }

\* C12: in the method-based engine a Replace(X) made by the callback of a
\* closing call changes nothing. In every walk in which one was made: the
\* call Inspect(c) still returns what c's pre-order callback left, every slot
\* of a walked node holds, when the walk has ended, what the pre-order
\* callbacks of its children left, X
\* is in no child slot, is no visitor call's argument and is not what Inspect
\* returns, the invocations of a walk that has ended are the beginning of (and
\* those of a walk that has returned are exactly) the sequence that the
\* pre-order callbacks' choices alone determine, and the cursor a later
\* callback finds is that callback's own node argument, not X.
C12_ClosingReplaceIgnored ==
    ClosingReplaces # {} =>
        /\ Terminated => \E s \in WalkSeqs(root[1]) : IsPrefix(Shape(trace[1]), s)
        /\ status[1] = "done" =>
              /\ Shape(trace[1]) \in WalkSeqs(root[1])
              /\ result[1] = Res(1, root[1])
        /\ \A d \in DOMAIN stack[1] :
              (stack[1][d].pc = "Return" \/ stack[1][d].closing) =>
                  stack[1][d].node = Res(1, stack[1][d].arg)
        /\ Terminated =>
              \A i \in DOMAIN trace[1] :
                 trace[1][i].closing =>
                    \A j \in DOMAIN Heap0[trace[1][i].of] : SlotHolds(1, trace[1][i].of, j)
        /\ \A i \in ClosingReplaces :
              trace[1][i].repl # 0 =>
                 /\ ~Held(trace[1][i].repl)
                 /\ result[1] # trace[1][i].repl
                 /\ \A k \in DOMAIN trace[1] : trace[1][k].arg # trace[1][i].repl
        /\ (stack[1] # << >> /\ Top(1).pc = "Call" /\ ~Top(1).repd) =>
              cursor = VisitArg(Top(1))

\* A finished walk in which the callback of the closing call of a child
\* passed a node to Replace and a later sibling was visited afterwards.
C12_Witness ==
    /\ status[1] = "done"
    /\ \E i \in ClosingReplaces :
          /\ trace[1][i].repl # 0
          /\ trace[1][i].depth > 1
          /\ \E k \in DOMAIN trace[1] : k > i /\ ~trace[1][k].closing

\* The node whose children were being walked when invocation i was made.
ParentOf(i) ==
    LET o == Scan(trace[1], i - 1).open IN o[Len(o)]

\* The field of p, and the place in it, that node c occupied before the walk.
PlacesOf(p, c) ==
    UNION { { << j, k >> : k \in { m \in DOMAIN Walked0(p, j) : Walked0(p, j)[m] = c } } :
               j \in DOMAIN Heap0[p] }

\* What place << j, k >> of p holds now.
Cell(p, jk) ==
    IF heap[p][jk[1]].isNil \/ jk[2] \notin DOMAIN heap[p][jk[1]].v
    THEN 0 ELSE heap[p][jk[1]].v[jk[2]]

\* The pre-order calls for a child (not the root) whose callback called
\* Replace with a node that is not of the family of the child's slot.
Misfits ==
    { i \in DOMAIN trace[1] :
         /\ ~trace[1][i].closing /\ trace[1][i].replaced /\ trace[1][i].depth > 1
         /\ LET p == ParentOf(i)
            IN  \E jk \in PlacesOf(p, trace[1][i].arg) :
                   KindOf(trace[1][i].repl) \notin Family(Fields(KindOf(p))[jk[1]].type) }

\* C13: when the callback of a child's pre-order call replaces the child by a
\* node B that is not of the family of the slot (a statement for an
\* expression, an expression for an identifier, nil), the walk does not get
\* past that slot: the place keeps the child it held, B is in no slot and in
\* no helper's new list, every later visitor call is made inside the walk of
\* B (B's children and B's closing call), so none for a later sibling and no
\* closing call for the parent, and Inspect never returns: its walk panics, at
\* the assignment or before it in the switch.
C13_FailFast ==
    \A i \in Misfits :
       LET e == trace[1][i]
           p == ParentOf(i)
       IN
       /\ status[1] \in { "running", "fatal", "typefail" }
       /\ Len(stack[1]) >= e.depth
       /\ stack[1][e.depth].arg = e.arg
       /\ \A jk \in PlacesOf(p, e.arg) : Cell(p, jk) = e.arg
       /\ e.repl # 0 =>
             /\ ~Held(e.repl)
             /\ \A d \in DOMAIN stack[1] : e.repl \notin Range(stack[1][d].newList)
       /\ \A k \in DOMAIN trace[1] :
             k > i =>
                \/ trace[1][k].depth > e.depth
                \/ /\ trace[1][k].closing /\ trace[1][k].depth = e.depth
                   /\ trace[1][k].of = e.repl
       /\ (status[1] = "typefail" /\ Len(stack[1]) = e.depth) => Top(1).node = e.repl

\* The type assertion has failed on a two-part selector put in place of a
\* function's name, after the selector's own children were visited, and,
\* in another walk, on an empty statement put in place of an expression.
C13_Witness ==
    /\ status[1] = "typefail"
    /\ \E i \in Misfits :
          \/ /\ trace[1][i].result
             /\ KindOf(trace[1][i].repl) = "SelectorExpr"
             /\ KindOf(trace[1][i].arg) = "Ident"
             /\ \E k \in DOMAIN trace[1] : k > i /\ ~trace[1][k].closing
          \/ /\ KindOf(trace[1][i].repl) = "EmptyStmt"
             /\ KindOf(trace[1][i].arg) \in ExprKinds

\* C14: while a callback of the one walk runs, Current() is the node argument
\* of that invocation (nil in a closing call) as long as the callback has not
\* called Replace, and the last node it passed to Replace from then on.
C14_CurrentIsArgument ==
    (stack[1] # << >> /\ Top(1).pc = "Call") =>
        Current = IF Top(1).repd THEN Top(1).rep
                  ELSE IF Top(1).closing THEN 0 ELSE Top(1).arg

\* A closing callback, the first of this walk to call Replace, has called it
\* twice, the second time with a node.
C14_Witness ==
    /\ stack[1] # << >> /\ Top(1).pc = "Call"
    /\ Top(1).closing /\ Top(1).repd /\ Top(1).rep # 0
    /\ nrepl = MaxReplace
    /\ \A i \in DOMAIN trace[1] : ~trace[1][i].replaced

\* Every child field that the case of its variant walks unconditionally is
\* present, in node n and in everything below it.
MandatoryPresent(n) ==
    \A m \in { n } \cup Desc0(n) :
       \A j \in DOMAIN Heap0[m] :
          (KindOf(m) \in Kinds /\ Fields(KindOf(m))[j].mode = "req") => ~Heap0[m][j].isNil

\* Node n, or a node below it, has an optional child field that is absent.
OptionalAbsent(n) ==
    \E m \in { n } \cup Desc0(n) :
       \E j \in DOMAIN Heap0[m] :
          KindOf(m) \in Kinds /\ Fields(KindOf(m))[j].mode = "opt" /\ Heap0[m][j].isNil

NeverReplaced == \A i \in DOMAIN trace[1] : ~trace[1][i].replaced

NilCalls == { i \in DOMAIN trace[1] : trace[1][i].arg = 0 }

Continues == { i \in DOMAIN trace[1] : ~trace[1][i].closing /\ trace[1][i].result }

\* C15: in a walk of a tree whose mandatory children are all present, by a
\* visitor that never replaces, no call is made for an absent optional child:
\* every invocation whose node argument is nil is a closing call, every
\* pre-order call is for a node, the nil-argument calls made so far are as
\* many as the pre-order calls that returned continue less the nodes still
\* being walked, and as many as those when Inspect returns.
C15_AbsentOptionalSkipped ==
    (NeverReplaced /\ MandatoryPresent(root[1])) =>
        /\ \A i \in NilCalls : trace[1][i].closing
        /\ \A i \in DOMAIN trace[1] : ~trace[1][i].closing => trace[1][i].arg \in Nodes
        /\ Cardinality(NilCalls) + Len(Scan(trace[1], Len(trace[1])).open)
              = Cardinality(Continues)
        /\ status[1] = "done" => Cardinality(NilCalls) = Cardinality(Continues)

\* A finished walk without replacement of a function declaration that has
\* neither doc comment, receiver nor body: its name and type were visited, one
\* with continue and one with stop.
C15_Witness ==
    /\ status[1] = "done" /\ NeverReplaced
    /\ MandatoryPresent(root[1]) /\ OptionalAbsent(root[1])
    /\ KindOf(root[1]) = "FuncDecl"
    /\ Cardinality(NilCalls) = 2
    /\ Len(trace[1]) = 5

\* The nodes reachable from the root of the walk, the root included.
Reach == { root[1] } \cup Desc0(root[1])

\* C16: a walk whose visitor never calls Replace and whose callbacks return
\* comes to an end (Inspect returns, or panics), and makes at most 2N visitor
\* invocations, N being the number of nodes reachable from the root: every
\* reachable node gets at most one pre-order call and at most one closing
\* call, and no other node gets any. (A mandatory child that is absent adds
\* the one pre-order call with a nil argument that precedes the panic; the
\* total stays within 2N.)
C16_Terminates ==
    /\ [](NeverReplaced =>
            /\ Len(trace[1]) <= 2 * Cardinality(Reach)
            /\ \A n \in Nodes :
                  /\ Cardinality(PreIdx(1, n)) <= (IF n \in Reach THEN 1 ELSE 0)
                  /\ Cardinality(Closings(1, n)) <= (IF n \in Reach THEN 1 ELSE 0)
            /\ Cardinality({ i \in NilCalls : ~trace[1][i].closing }) <= 1)
    /\ <>(Terminated \/ ~NeverReplaced)

\* Inspect has returned from a walk of five nodes whose visitor never
\* replaced and always continued: ten invocations.
C16_Witness ==
    /\ status[1] = "done" /\ NeverReplaced
    /\ Cardinality(Reach) = 5
    /\ Len(trace[1]) = 2 * Cardinality(Reach)

\* The frames of thread 1 that are inside Visit, between Lock and Unlock.
Holding ==
    { d \in DOMAIN stack[1] :
         stack[1][d].pc \in { "Set", "Call", "Capture", "Clear", "Unlock" } }

\* A callback of thread 1 has called back into the Inspector.
Reentered ==
    \E d \in DOMAIN stack[1] : d < Len(stack[1]) /\ stack[1][d].pc = "Call"

====
